---- MODULE Spec2Model ----
(***************************************************************************)
(* Lifecycle engine of the hackontainer OCI runtime: the CLI verbs         *)
(* (create, start, run, state, kill, delete), the on-disk state store      *)
(* <root>/<id>/state.json, the init processes the verbs spawn and the      *)
(* reaper process that start forks.  One container id under one root is    *)
(* modelled; every CLI invocation is its own OS process, so invocations    *)
(* interleave at the granularity of their file-system and process          *)
(* system calls.                                                           *)
(***************************************************************************)
EXTENDS Integers, FiniteSets, Sequences

\* Number of CLI invocations a behaviour may begin.
MaxOps == 3

\* Concurrent CLI invocations (OS processes running a verb at the same time).
Inv == {1, 2}

\* Pids handed to spawned init processes: at most one spawn per invocation,
\* and one more for a container started before the invocations begin.
Pids == 1..(MaxOps + 1)

\* Bundles a create/run may be given: a valid one, one without a readable
\* config.json, one whose config has no root, one whose config fails Validate.
Bundles == {"ok", "noconfig", "noroot", "invalid"}

Verbs == {"create", "start", "run", "state", "kill", "delete"}

VARIABLES
    dir,        \* <root>/<id> exists
    file,       \* content of <root>/<id>/state.json
    obs,        \* status of the last complete record the file held ("absent" if none)
    last,       \* the last complete record the file held (NoRec once it is removed)
    epoch,      \* number of times the directory has been removed
    inv,        \* the CLI invocations: verb, position, locals
    ops,        \* invocations begun so far
    clock,      \* time.Now() as a logical clock
    spawned,    \* number of init processes spawned so far (the next pid is spawned + 1)
    alive,      \* pids of the init processes that have not exited
    procGen,    \* pid -> Created stamp of the record its spawner held
    signalled,  \* pids a kill verb delivered a signal to
    reaper,     \* pid -> the reaper process forked by the start that spawned pid
    launched,   \* a start or run has been invoked
    failed,     \* pids of the init processes whose bring-up failed before exec
    reused,     \* pids of exited init processes that another process now holds
    input,      \* argument handed to a function examined on its own
    output      \* what that function returned

vars ==
    <<dir, file, obs, last, epoch, inv, ops, clock, spawned, alive, procGen, signalled, reaper,
      launched, failed, reused, input, output>>

(***************************************************************************)
(* State records and the state file                                        *)
(***************************************************************************)

\* type State: only the fields the verbs write or compare.
StateRec(status, pid, created) ==
    [kind |-> "rec", status |-> status, pid |-> pid, created |-> created]

\* type State has no init_start_time field: a record never carries one.
InitStartTime(rec) == 0

NoRec == [kind |-> "none", status |-> "", pid |-> 0, created |-> 0]

\* A file that O_TRUNC has emptied and whose data has not been written yet.
Empty == [kind |-> "empty", status |-> "", pid |-> 0, created |-> 0]

\* A file holding one document followed by the tail of a longer one.
Garbled == [kind |-> "garbled", status |-> "", pid |-> 0, created |-> 0]

\* Length of the marshalled document: the three status strings have the same
\* length, so the length varies with the digits of pid (0 against a real pid).
DocLen(f) ==
    CASE f.kind = "none" -> 0
      [] f.kind = "empty" -> 0
      [] f.kind = "garbled" -> 2
      [] OTHER -> IF f.pid = 0 THEN 1 ELSE 2

\* f.Write(data) at offset 0 of a file holding cur: bytes past len(data) stay.
WriteAt0(cur, data) ==
    IF DocLen(cur) > DocLen(data) THEN Garbled ELSE data

\* loadState: ReadFile then json.Unmarshal.
loadState ==
    IF file.kind = "none" THEN [ok |-> FALSE, err |-> "notfound", rec |-> NoRec]
    ELSE IF file.kind = "rec" THEN [ok |-> TRUE, err |-> "none", rec |-> file]
    ELSE [ok |-> FALSE, err |-> "parse", rec |-> NoRec]

\* The status an observer of the file would have last seen.
ObsAfter(f) ==
    IF f.kind = "rec" THEN f.status
    ELSE IF f.kind = "none" THEN "absent"
    ELSE obs

\* The record an observer of the file would have last seen.
LastAfter(f) ==
    IF f.kind = "rec" THEN f
    ELSE IF f.kind = "none" THEN NoRec
    ELSE last

SetFile(f) == file' = f /\ obs' = ObsAfter(f) /\ last' = LastAfter(f)

\* Unlinking the file leaves every open descriptor on the old inode.
CloseFds(t) == [x \in DOMAIN t |-> [t[x] EXCEPT !.fd = FALSE]]

(***************************************************************************)
(* Invocations                                                             *)
(***************************************************************************)

IdleInv ==
    [verb |-> "none", pc |-> "idle", bundle |-> "ok", st |-> NoRec, proc |-> 0,
     seen |-> "", result |-> "none", err |-> "none", fd |-> FALSE,
     wrote |-> FALSE, sawDir |-> FALSE, mkdir |-> FALSE, existed |-> FALSE,
     epoch |-> 0]

\* epoch: the number of removals of the directory when the reaper was forked.
IdleReaper == [pc |-> "none", cur |-> NoRec, fd |-> FALSE, epoch |-> 0]

\* The invocation's process exits: what stays is its exit status and message
\* (and, on success, the record it wrote or printed).
Fail(r, e) ==
    [r EXCEPT !.pc = "done", !.result = "error", !.err = e, !.fd = FALSE,
              !.bundle = "ok", !.st = NoRec]

Succeed(r) == [r EXCEPT !.pc = "done", !.result = "ok", !.fd = FALSE, !.bundle = "ok"]

\* No container, no invocation, no process.
Idle ==
    /\ dir = FALSE
    /\ file = NoRec
    /\ obs = "absent"
    /\ last = NoRec
    /\ epoch = 0
    /\ inv = [i \in Inv |-> IdleInv]
    /\ ops = 0
    /\ clock = 1
    /\ spawned = 0
    /\ alive = {}
    /\ procGen = [p \in Pids |-> 0]
    /\ signalled = {}
    /\ reaper = [p \in Pids |-> IdleReaper]
    /\ launched = FALSE
    /\ failed = {}
    /\ reused = {}

Init ==
    /\ Idle
    /\ input = <<>>
    /\ output = <<>>

\* main: app.Run dispatches the verb named on the command line.  A new
\* invocation takes the first free slot; it becomes visible to the others
\* with its first file-system call.
CanInvoke(i) ==
    /\ inv[i].pc \in {"idle", "done"}
    /\ \A j \in Inv : j < i => inv[j].pc \notin {"idle", "done"}
    /\ ops < MaxOps

Fresh(v, b) == [IdleInv EXCEPT !.verb = v, !.bundle = b]

(***************************************************************************)
(* create and the create half of run                                       *)
(***************************************************************************)

\* createCommand without the os.Stat guard.
createCommand_NoStat(i, b) ==
    /\ CanInvoke(i)
    /\ ops' = ops + 1
    /\ inv' = [inv EXCEPT ![i] = [Fresh("create", b) EXCEPT !.pc = "mkdir", !.sawDir = dir]]
    /\ UNCHANGED <<dir, file, obs, last, epoch, clock, spawned, alive, procGen, signalled, reaper, launched, failed, reused, input, output>>

\* createCommand: os.Stat(root/id) succeeding means the id is taken.
createCommand(i, b) ==
    /\ CanInvoke(i)
    /\ ops' = ops + 1
    /\ inv' = [inv EXCEPT ![i] =
                 IF dir THEN Fail([Fresh("create", b) EXCEPT !.sawDir = dir], "exists")
                 ELSE [Fresh("create", b) EXCEPT !.pc = "mkdir", !.sawDir = dir]]
    /\ UNCHANGED <<dir, file, obs, last, epoch, clock, spawned, alive, procGen, signalled, reaper, launched, failed, reused, input, output>>

\* LinuxFactory.Create: os.MkdirAll(containerRoot) succeeds whether or not
\* the directory is already there.
MkdirAll(r) ==
    [r EXCEPT !.pc = "config", !.mkdir = TRUE, !.existed = dir, !.epoch = epoch]

Create_mkdir(i) ==
    /\ inv[i].verb = "create" /\ inv[i].pc = "mkdir"
    /\ dir' = TRUE
    /\ inv' = [inv EXCEPT ![i] = MkdirAll(@)]
    /\ UNCHANGED <<file, obs, last, epoch, ops, clock, spawned, alive, procGen, signalled, reaper, launched, failed, reused, input, output>>

\* runCommand: factory.Create follows libcontainer.New at once, with no
\* os.Stat of the container directory before it.
runCommand(i, b) ==
    /\ CanInvoke(i)
    /\ ops' = ops + 1
    /\ dir' = TRUE
    /\ inv' = [inv EXCEPT ![i] = MkdirAll(Fresh("run", b))]
    /\ launched' = TRUE
    /\ UNCHANGED <<file, obs, last, epoch, clock, spawned, alive, procGen, signalled, reaper, failed, reused, input, output>>

\* LinuxFactory.Create: loadContainerConfig, NormalizeRoot, validateID,
\* Validate; each failure returns the error at once.
Create_config(i) ==
    /\ inv[i].verb \in {"create", "run"} /\ inv[i].pc = "config"
    /\ inv' = [inv EXCEPT ![i] =
                 IF inv[i].bundle = "ok" THEN [@ EXCEPT !.pc = "open"]
                 ELSE Fail(@, "config")]
    /\ UNCHANGED <<dir, file, obs, last, epoch, ops, clock, spawned, alive, procGen, signalled, reaper, launched, failed, reused, input, output>>

\* createState with the initial record marked running.
createState_open_Running(i) ==
    /\ inv[i].verb \in {"create", "run"} /\ inv[i].pc = "open"
    /\ clock' = clock + 1
    /\ IF dir
       THEN /\ SetFile(Empty)
            /\ inv' = [inv EXCEPT ![i] =
                         [@ EXCEPT !.pc = "write", !.fd = TRUE,
                                   !.st = StateRec("running", 0, clock)]]
       ELSE /\ UNCHANGED <<file, obs, last, last>>
            /\ inv' = [inv EXCEPT ![i] = Fail(@, "io")]
    /\ UNCHANGED <<dir, epoch, ops, spawned, alive, procGen, signalled, reaper, launched, failed, reused, input, output>>

\* createState builds the initial record; saveState's os.WriteFile opens
\* state.json with O_CREATE|O_TRUNC (ENOENT when the directory is gone).
createState_open(i) ==
    /\ inv[i].verb \in {"create", "run"} /\ inv[i].pc = "open"
    /\ clock' = clock + 1
    /\ IF dir
       THEN /\ SetFile(Empty)
            /\ inv' = [inv EXCEPT ![i] =
                         [@ EXCEPT !.pc = "write", !.fd = TRUE,
                                   !.st = StateRec("created", 0, clock)]]
       ELSE /\ UNCHANGED <<file, obs, last, last>>
            /\ inv' = [inv EXCEPT ![i] = Fail(@, "io")]
    /\ UNCHANGED <<dir, epoch, ops, spawned, alive, procGen, signalled, reaper, launched, failed, reused, input, output>>

\* saveState: the write of the marshalled record, then Create returns the
\* container (create is done; run goes on to container.Run).
createState_write(i) ==
    /\ inv[i].verb \in {"create", "run"} /\ inv[i].pc = "write"
    /\ IF inv[i].fd THEN SetFile(WriteAt0(file, inv[i].st)) ELSE UNCHANGED <<file, obs, last, last>>
    /\ inv' = [inv EXCEPT ![i] =
                 IF inv[i].verb = "create" THEN Succeed([@ EXCEPT !.wrote = TRUE])
                 ELSE [@ EXCEPT !.pc = "spawn", !.fd = FALSE, !.wrote = TRUE]]
    /\ UNCHANGED <<dir, epoch, ops, clock, spawned, alive, procGen, signalled, reaper, launched, failed, reused, input, output>>

(***************************************************************************)
(* Factory.Load, shared by start, state, kill and delete                   *)
(***************************************************************************)

AfterLoad(v) ==
    CASE v = "start" -> "status"
      [] v = "state" -> "state"
      [] v = "kill" -> "signal"
      [] OTHER -> "rmfile"

\* LinuxFactory.Load: container.State() must succeed (then the config is
\* loaded from the bundle the record names).
Load(i, v) ==
    /\ CanInvoke(i)
    /\ ops' = ops + 1
    /\ inv' = [inv EXCEPT ![i] =
                 IF loadState.ok
                 THEN [Fresh(v, "ok") EXCEPT !.pc = AfterLoad(v), !.st = loadState.rec,
                                              !.seen = loadState.rec.status]
                 ELSE Fail(Fresh(v, "ok"), loadState.err)]
    /\ launched' = (launched \/ v = "start")
    /\ UNCHANGED <<dir, file, obs, last, epoch, clock, spawned, alive, procGen, signalled, reaper, failed, reused, input, output>>

(***************************************************************************)
(* start                                                                   *)
(***************************************************************************)

\* startCommand: container.Status() and the switch on it.
startCommand(i) ==
    /\ inv[i].verb = "start" /\ inv[i].pc = "status"
    /\ inv' = [inv EXCEPT ![i] =
                 IF ~loadState.ok THEN Fail([@ EXCEPT !.seen = ""], loadState.err)
                 ELSE IF loadState.rec.status # "created"
                      THEN Fail([@ EXCEPT !.seen = loadState.rec.status], "state")
                      ELSE [@ EXCEPT !.pc = "check", !.seen = loadState.rec.status]]
    /\ UNCHANGED <<dir, file, obs, last, epoch, ops, clock, spawned, alive, procGen, signalled, reaper, launched, failed, reused, input, output>>

\* linuxContainer.Start without the status guard.
Start_check_NoGuard(i) ==
    /\ inv[i].verb = "start" /\ inv[i].pc = "check"
    /\ inv' = [inv EXCEPT ![i] =
                 IF ~loadState.ok THEN Fail([@ EXCEPT !.seen = ""], loadState.err)
                 ELSE [@ EXCEPT !.pc = "spawn", !.st = loadState.rec,
                                !.seen = loadState.rec.status]]
    /\ UNCHANGED <<dir, file, obs, last, epoch, ops, clock, spawned, alive, procGen, signalled, reaper, launched, failed, reused, input, output>>

\* linuxContainer.Start: c.State() and the status guard.
Start_check(i) ==
    /\ inv[i].verb = "start" /\ inv[i].pc = "check"
    /\ inv' = [inv EXCEPT ![i] =
                 IF ~loadState.ok THEN Fail([@ EXCEPT !.seen = ""], loadState.err)
                 ELSE IF loadState.rec.status # "created"
                      THEN Fail([@ EXCEPT !.seen = loadState.rec.status], "state")
                      ELSE [@ EXCEPT !.pc = "spawn", !.st = loadState.rec,
                                     !.seen = loadState.rec.status]]
    /\ UNCHANGED <<dir, file, obs, last, epoch, ops, clock, spawned, alive, procGen, signalled, reaper, launched, failed, reused, input, output>>

\* linuxContainer.Start recording the running status without the init's pid.
Start_spawn_NoPid(i) ==
    /\ inv[i].verb = "start" /\ inv[i].pc = "spawn"
    /\ \E started \in BOOLEAN :
         IF started
         THEN /\ spawned' = spawned + 1
              /\ alive' = alive \cup {spawned + 1}
              /\ procGen' = [procGen EXCEPT ![spawned + 1] = inv[i].st.created]
              /\ inv' = [inv EXCEPT ![i] =
                           [@ EXCEPT !.pc = "open", !.proc = spawned + 1,
                                     !.st = [@ EXCEPT !.status = "running"]]]
         ELSE /\ inv' = [inv EXCEPT ![i] = Fail(@, "launch")]
              /\ UNCHANGED <<spawned, alive, procGen>>
    /\ UNCHANGED <<dir, file, obs, last, epoch, ops, clock, signalled, reaper, launched, failed, reused, input, output>>

\* linuxContainer.Start saving the running status before the launcher result
\* is known, so that a failed launch leaves it in the file.
Start_spawn_Partial(i) ==
    /\ inv[i].verb = "start" /\ inv[i].pc = "spawn"
    /\ \E started \in BOOLEAN :
         IF started
         THEN /\ spawned' = spawned + 1
              /\ alive' = alive \cup {spawned + 1}
              /\ procGen' = [procGen EXCEPT ![spawned + 1] = inv[i].st.created]
              /\ inv' = [inv EXCEPT ![i] =
                           [@ EXCEPT !.pc = "open", !.proc = spawned + 1,
                                     !.st = [@ EXCEPT !.status = "running",
                                                      !.pid = spawned + 1]]]
              /\ UNCHANGED <<file, obs, last, last>>
         ELSE /\ inv' = [inv EXCEPT ![i] = Fail(@, "launch")]
              /\ SetFile(IF dir THEN [inv[i].st EXCEPT !.status = "running"] ELSE file)
              /\ UNCHANGED <<spawned, alive, procGen>>
    /\ UNCHANGED <<dir, epoch, ops, clock, signalled, reaper, launched, failed, reused, input, output>>

\* linuxContainer.Start recording the init's pid without the running status.
Start_spawn_KeepsCreated(i) ==
    /\ inv[i].verb = "start" /\ inv[i].pc = "spawn"
    /\ \E started \in BOOLEAN :
         IF started
         THEN /\ spawned' = spawned + 1
              /\ alive' = alive \cup {spawned + 1}
              /\ procGen' = [procGen EXCEPT ![spawned + 1] = inv[i].st.created]
              /\ inv' = [inv EXCEPT ![i] =
                           [@ EXCEPT !.pc = "open", !.proc = spawned + 1,
                                     !.st = [@ EXCEPT !.pid = spawned + 1]]]
         ELSE /\ inv' = [inv EXCEPT ![i] = Fail(@, "launch")]
              /\ UNCHANGED <<spawned, alive, procGen>>
    /\ UNCHANGED <<dir, file, obs, last, epoch, ops, clock, signalled, reaper, launched, failed, reused, input, output>>

\* linuxContainer.Start: newInitProcess and process.start(); on success
\* state.Status = Running and state.Pid = process.pid().
Start_spawn(i) ==
    /\ inv[i].verb = "start" /\ inv[i].pc = "spawn"
    /\ \E started \in BOOLEAN :
         IF started
         THEN /\ spawned' = spawned + 1
              /\ alive' = alive \cup {spawned + 1}
              /\ procGen' = [procGen EXCEPT ![spawned + 1] = inv[i].st.created]
              /\ inv' = [inv EXCEPT ![i] =
                           [@ EXCEPT !.pc = "open", !.proc = spawned + 1,
                                     !.st = [@ EXCEPT !.status = "running",
                                                      !.pid = spawned + 1]]]
         ELSE /\ inv' = [inv EXCEPT ![i] = Fail(@, "launch")]
              /\ UNCHANGED <<spawned, alive, procGen>>
    /\ UNCHANGED <<dir, file, obs, last, epoch, ops, clock, signalled, reaper, launched, failed, reused, input, output>>

\* linuxContainer.Start returning the saveState error without terminating
\* the init process.
Start_open_NoTerminate(i) ==
    /\ inv[i].verb = "start" /\ inv[i].pc = "open"
    /\ IF dir
       THEN /\ SetFile(Empty)
            /\ inv' = [inv EXCEPT ![i] = [@ EXCEPT !.pc = "write", !.fd = TRUE]]
       ELSE /\ UNCHANGED <<file, obs, last, last>>
            /\ inv' = [inv EXCEPT ![i] = Fail(@, "io")]
    /\ UNCHANGED <<dir, epoch, ops, clock, spawned, alive, procGen, signalled, reaper, launched, failed, reused, input, output>>

\* linuxContainer.Start: saveState's open; when it fails the init process is
\* terminated and the error returned.
Start_open(i) ==
    /\ inv[i].verb = "start" /\ inv[i].pc = "open"
    /\ IF dir
       THEN /\ SetFile(Empty)
            /\ inv' = [inv EXCEPT ![i] = [@ EXCEPT !.pc = "write", !.fd = TRUE]]
            /\ UNCHANGED alive
       ELSE /\ UNCHANGED <<file, obs, last, last>>
            /\ alive' = alive \ {inv[i].proc}
            /\ inv' = [inv EXCEPT ![i] = Fail(@, "io")]
    /\ UNCHANGED <<dir, epoch, ops, clock, spawned, procGen, signalled, reaper, launched, failed, reused, input, output>>

\* linuxContainer.Start: saveState's write of the running record.
Start_write(i) ==
    /\ inv[i].verb = "start" /\ inv[i].pc = "write"
    /\ IF inv[i].fd THEN SetFile(WriteAt0(file, inv[i].st)) ELSE UNCHANGED <<file, obs, last, last>>
    /\ inv' = [inv EXCEPT ![i] = [@ EXCEPT !.pc = "fork", !.fd = FALSE, !.wrote = TRUE]]
    /\ UNCHANGED <<dir, epoch, ops, clock, spawned, alive, procGen, signalled, reaper, launched, failed, reused, input, output>>

\* linuxContainer.Start: fork of the reaper; a failed fork is only logged.
Start_fork(i) ==
    /\ inv[i].verb = "start" /\ inv[i].pc = "fork"
    /\ \E forked \in BOOLEAN :
         reaper' = IF forked
                   THEN [reaper EXCEPT ![inv[i].proc] = [@ EXCEPT !.pc = "poll", !.epoch = epoch]]
                   ELSE reaper
    /\ inv' = [inv EXCEPT ![i] = Succeed(@)]
    /\ UNCHANGED <<dir, file, obs, last, epoch, ops, clock, spawned, alive, procGen, signalled, launched, failed, reused, input, output>>

(***************************************************************************)
(* run                                                                     *)
(***************************************************************************)

\* linuxContainer.Run: newInitProcess and process.start().
Run_spawn(i) ==
    /\ inv[i].verb = "run" /\ inv[i].pc = "spawn"
    /\ \E started \in BOOLEAN :
         IF started
         THEN /\ spawned' = spawned + 1
              /\ alive' = alive \cup {spawned + 1}
              /\ procGen' = [procGen EXCEPT ![spawned + 1] = inv[i].st.created]
              /\ inv' = [inv EXCEPT ![i] = [@ EXCEPT !.pc = "wait", !.proc = spawned + 1]]
         ELSE /\ inv' = [inv EXCEPT ![i] = Fail(@, "launch")]
              /\ UNCHANGED <<spawned, alive, procGen>>
    /\ UNCHANGED <<dir, file, obs, last, epoch, ops, clock, signalled, reaper, launched, failed, reused, input, output>>

\* linuxContainer.Run going on without process.wait().
Run_wait_NoWait(i) ==
    /\ inv[i].verb = "run" /\ inv[i].pc = "wait"
    /\ inv' = [inv EXCEPT ![i] = [@ EXCEPT !.pc = "reload"]]
    /\ UNCHANGED <<dir, file, obs, last, epoch, ops, clock, spawned, alive, procGen, signalled, reaper, launched, failed, reused, input, output>>

\* linuxContainer.Run: process.wait() returns once the init has exited.
Run_wait(i) ==
    /\ inv[i].verb = "run" /\ inv[i].pc = "wait"
    /\ inv[i].proc \notin alive
    /\ inv' = [inv EXCEPT ![i] = [@ EXCEPT !.pc = "reload"]]
    /\ UNCHANGED <<dir, file, obs, last, epoch, ops, clock, spawned, alive, procGen, signalled, reaper, launched, failed, reused, input, output>>

\* linuxContainer.Run: c.State(), then state.Status = Stopped.
Run_reload(i) ==
    /\ inv[i].verb = "run" /\ inv[i].pc = "reload"
    /\ inv' = [inv EXCEPT ![i] =
                 IF loadState.ok
                 THEN [@ EXCEPT !.pc = "save", !.st = [loadState.rec EXCEPT !.status = "stopped"]]
                 ELSE Fail(@, loadState.err)]
    /\ UNCHANGED <<dir, file, obs, last, epoch, ops, clock, spawned, alive, procGen, signalled, reaper, launched, failed, reused, input, output>>

\* linuxContainer.Run: saveState's open.
Run_open(i) ==
    /\ inv[i].verb = "run" /\ inv[i].pc = "save"
    /\ IF dir
       THEN /\ SetFile(Empty)
            /\ inv' = [inv EXCEPT ![i] = [@ EXCEPT !.pc = "save2", !.fd = TRUE]]
       ELSE /\ UNCHANGED <<file, obs, last, last>>
            /\ inv' = [inv EXCEPT ![i] = Fail(@, "io")]
    /\ UNCHANGED <<dir, epoch, ops, clock, spawned, alive, procGen, signalled, reaper, launched, failed, reused, input, output>>

\* linuxContainer.Run: saveState's write of the stopped record.
Run_write(i) ==
    /\ inv[i].verb = "run" /\ inv[i].pc = "save2"
    /\ IF inv[i].fd THEN SetFile(WriteAt0(file, inv[i].st)) ELSE UNCHANGED <<file, obs, last, last>>
    /\ inv' = [inv EXCEPT ![i] = Succeed(@)]
    /\ UNCHANGED <<dir, epoch, ops, clock, spawned, alive, procGen, signalled, reaper, launched, failed, reused, input, output>>

(***************************************************************************)
(* delete                                                                  *)
(***************************************************************************)

\* linuxContainer.Delete: os.Remove(statePath), a missing file is ignored.
Delete_remove(i) ==
    /\ inv[i].verb = "delete" /\ inv[i].pc = "rmfile"
    /\ SetFile(NoRec)
    /\ inv' = [CloseFds(inv) EXCEPT ![i] = [@ EXCEPT !.pc = "rmdir"]]
    /\ reaper' = CloseFds(reaper)
    /\ UNCHANGED <<dir, epoch, ops, clock, spawned, alive, procGen, signalled, launched, failed, reused, input, output>>

\* linuxContainer.Delete with os.Remove(c.root) in place of os.RemoveAll: a
\* directory that is not empty stays and the error is returned.
Delete_removeAll_Rmdir(i) ==
    /\ inv[i].verb = "delete" /\ inv[i].pc = "rmdir"
    /\ IF file.kind = "none"
       THEN /\ dir' = FALSE
            /\ epoch' = IF dir THEN epoch + 1 ELSE epoch
            /\ SetFile(NoRec)
            /\ inv' = [CloseFds(inv) EXCEPT ![i] = Succeed(@)]
            /\ reaper' = CloseFds(reaper)
       ELSE /\ inv' = [inv EXCEPT ![i] = Fail(@, "io")]
            /\ UNCHANGED <<dir, epoch, file, obs, last, reaper>>
    /\ UNCHANGED <<ops, clock, spawned, alive, procGen, signalled, launched, failed, reused, input, output>>

\* linuxContainer.Delete: os.RemoveAll(c.root).
Delete_removeAll(i) ==
    /\ inv[i].verb = "delete" /\ inv[i].pc = "rmdir"
    /\ dir' = FALSE
    /\ epoch' = IF dir THEN epoch + 1 ELSE epoch
    /\ SetFile(NoRec)
    /\ inv' = [CloseFds(inv) EXCEPT ![i] = Succeed(@)]
    /\ reaper' = CloseFds(reaper)
    /\ UNCHANGED <<ops, clock, spawned, alive, procGen, signalled, launched, failed, reused, input, output>>

(***************************************************************************)
(* state and kill                                                          *)
(***************************************************************************)

\* stateCommand: container.State().
stateCommand_state(i) ==
    /\ inv[i].verb = "state" /\ inv[i].pc = "state"
    /\ inv' = [inv EXCEPT ![i] =
                 IF loadState.ok THEN [@ EXCEPT !.pc = "status", !.st = loadState.rec]
                 ELSE Fail(@, loadState.err)]
    /\ UNCHANGED <<dir, file, obs, last, epoch, ops, clock, spawned, alive, procGen, signalled, reaper, launched, failed, reused, input, output>>

\* stateCommand: container.Status(), state.Status = status, and the output.
stateCommand_status(i) ==
    /\ inv[i].verb = "state" /\ inv[i].pc = "status"
    /\ inv' = [inv EXCEPT ![i] =
                 IF loadState.ok
                 THEN Succeed([@ EXCEPT !.st = [@ EXCEPT !.status = loadState.rec.status]])
                 ELSE Fail(@, loadState.err)]
    /\ UNCHANGED <<dir, file, obs, last, epoch, ops, clock, spawned, alive, procGen, signalled, reaper, launched, failed, reused, input, output>>

\* syscall.Kill(pid, sig) reaches whichever process holds pid.
Held == alive \cup reused

\* linuxContainer.Signal without the status and pid guards: syscall.Kill is
\* called with whatever pid the record holds (pid 0 names the caller's group).
Signal_NoGuard(i) ==
    /\ inv[i].verb = "kill" /\ inv[i].pc = "signal"
    /\ IF loadState.ok /\ (loadState.rec.pid = 0 \/ loadState.rec.pid \in Held)
       THEN /\ signalled' = signalled \cup {loadState.rec.pid}
            /\ inv' = [inv EXCEPT ![i] =
                         Succeed([@ EXCEPT !.st = loadState.rec, !.seen = loadState.rec.status])]
       ELSE /\ UNCHANGED signalled
            /\ inv' = [inv EXCEPT ![i] =
                         Fail([@ EXCEPT !.seen = IF loadState.ok THEN loadState.rec.status ELSE ""],
                              IF ~loadState.ok THEN loadState.err ELSE "esrch")]
    /\ UNCHANGED <<dir, file, obs, last, epoch, ops, clock, spawned, alive, procGen, reaper, launched, failed, reused, input, output>>

\* linuxContainer.Signal saving status stopped once the signal is delivered.
Signal_Stops(i) ==
    /\ inv[i].verb = "kill" /\ inv[i].pc = "signal"
    /\ IF loadState.ok /\ loadState.rec.status = "running" /\ loadState.rec.pid # 0
          /\ loadState.rec.pid \in Held
       THEN /\ signalled' = signalled \cup {loadState.rec.pid}
            /\ SetFile([loadState.rec EXCEPT !.status = "stopped"])
            /\ inv' = [inv EXCEPT ![i] =
                         Succeed([@ EXCEPT !.st = loadState.rec, !.seen = loadState.rec.status])]
       ELSE /\ UNCHANGED <<signalled, file, obs, last, last>>
            /\ inv' = [inv EXCEPT ![i] =
                         Fail([@ EXCEPT !.seen = IF loadState.ok THEN loadState.rec.status ELSE ""],
                              IF ~loadState.ok THEN loadState.err
                              ELSE IF loadState.rec.status # "running" THEN "state"
                              ELSE IF loadState.rec.pid = 0 THEN "noprocess"
                              ELSE "esrch")]
    /\ UNCHANGED <<dir, epoch, ops, clock, spawned, alive, procGen, reaper, launched, failed, reused, input, output>>

\* linuxContainer.Signal: c.State(), the two guards and syscall.Kill.
Signal(i) ==
    /\ inv[i].verb = "kill" /\ inv[i].pc = "signal"
    /\ IF loadState.ok /\ loadState.rec.status = "running" /\ loadState.rec.pid # 0
          /\ loadState.rec.pid \in Held
       THEN /\ signalled' = signalled \cup {loadState.rec.pid}
            /\ inv' = [inv EXCEPT ![i] =
                         Succeed([@ EXCEPT !.st = loadState.rec, !.seen = loadState.rec.status])]
       ELSE /\ UNCHANGED signalled
            /\ inv' = [inv EXCEPT ![i] =
                         Fail([@ EXCEPT !.seen = IF loadState.ok THEN loadState.rec.status ELSE ""],
                              IF ~loadState.ok THEN loadState.err
                              ELSE IF loadState.rec.status # "running" THEN "state"
                              ELSE IF loadState.rec.pid = 0 THEN "noprocess"
                              ELSE "esrch")]
    /\ UNCHANGED <<dir, file, obs, last, epoch, ops, clock, spawned, alive, procGen, reaper, launched, failed, reused, input, output>>

(***************************************************************************)
(* The init process and the reaper forked by start                         *)
(***************************************************************************)

\* The re-executed init process fails before exec: Load, config.Load,
\* setupRootfs, Sethostname, the executable lookup or syscall.Exec returns an
\* error and the process exits nonzero.
InitFail(p) ==
    /\ p \in alive
    /\ p \notin failed
    /\ alive' = alive \ {p}
    /\ failed' = failed \cup {p}
    /\ UNCHANGED <<dir, file, obs, last, epoch, inv, ops, clock, spawned, procGen, signalled, reaper, launched, reused, input, output>>

\* The init process ends after exec: its program returned or a signal ended it.
InitExit(p) ==
    /\ p \in alive
    /\ alive' = alive \ {p}
    /\ UNCHANGED <<dir, file, obs, last, epoch, inv, ops, clock, spawned, procGen, signalled, reaper, launched, failed, reused, input, output>>

\* The kernel hands the pid of an exited init process to an unrelated process.
PidReuse(p) ==
    /\ p <= spawned /\ p \notin alive /\ p \notin reused
    /\ reused' = reused \cup {p}
    /\ UNCHANGED <<dir, file, obs, last, epoch, inv, ops, clock, spawned, alive, procGen, signalled, reaper, launched, failed, input, output>>

\* The unrelated process holding a reused pid exits.
ForeignExit(p) ==
    /\ p \in reused
    /\ reused' = reused \ {p}
    /\ UNCHANGED <<dir, file, obs, last, epoch, inv, ops, clock, spawned, alive, procGen, signalled, reaper, launched, failed, input, output>>

\* Reaper: the poll loop leaves once syscall.Kill(containerPid, 0) fails, that
\* is once no process at all holds the pid.
reaper_poll(p) ==
    /\ reaper[p].pc = "poll"
    /\ p \notin Held
    /\ reaper' = [reaper EXCEPT ![p] = [@ EXCEPT !.pc = "read"]]
    /\ UNCHANGED <<dir, file, obs, last, epoch, inv, ops, clock, spawned, alive, procGen, signalled, launched, failed, reused, input, output>>

\* Reaper: ReadFile and Unmarshal (exit on failure), currentState.Status = Stopped.
reaper_read(p) ==
    /\ reaper[p].pc = "read"
    /\ reaper' = [reaper EXCEPT ![p] =
                    IF loadState.ok
                    THEN [@ EXCEPT !.pc = "open", !.cur = [loadState.rec EXCEPT !.status = "stopped"]]
                    ELSE [@ EXCEPT !.pc = "done"]]
    /\ UNCHANGED <<dir, file, obs, last, epoch, inv, ops, clock, spawned, alive, procGen, signalled, launched, failed, reused, input, output>>

\* Reaper: ioutil.WriteFile's open (exit on failure).
reaper_open(p) ==
    /\ reaper[p].pc = "open"
    /\ IF dir
       THEN /\ SetFile(Empty)
            /\ reaper' = [reaper EXCEPT ![p] = [@ EXCEPT !.pc = "write", !.fd = TRUE]]
       ELSE /\ UNCHANGED <<file, obs, last, last>>
            /\ reaper' = [reaper EXCEPT ![p] = [@ EXCEPT !.pc = "done", !.cur = NoRec]]
    /\ UNCHANGED <<dir, epoch, inv, ops, clock, spawned, alive, procGen, signalled, launched, failed, reused, input, output>>

\* Reaper: ioutil.WriteFile's write, then os.Exit(0).
reaper_write(p) ==
    /\ reaper[p].pc = "write"
    /\ IF reaper[p].fd THEN SetFile(WriteAt0(file, reaper[p].cur)) ELSE UNCHANGED <<file, obs, last, last>>
    /\ reaper' = [reaper EXCEPT ![p] = [@ EXCEPT !.pc = "done", !.fd = FALSE, !.cur = NoRec]]
    /\ UNCHANGED <<dir, epoch, inv, ops, clock, spawned, alive, procGen, signalled, launched, failed, reused, input, output>>

(***************************************************************************)
(* Specification                                                           *)
(***************************************************************************)

Next ==
    \/ \E i \in Inv, b \in Bundles : createCommand(i, b)
    \/ \E i \in Inv, b \in Bundles : runCommand(i, b)
    \/ \E i \in Inv : Create_mkdir(i)
    \/ \E i \in Inv : Create_config(i)
    \/ \E i \in Inv : createState_open(i)
    \/ \E i \in Inv : createState_write(i)
    \/ \E i \in Inv, v \in Verbs \ {"create", "run"} : Load(i, v)
    \/ \E i \in Inv : startCommand(i)
    \/ \E i \in Inv : Start_check(i)
    \/ \E i \in Inv : Start_spawn(i)
    \/ \E i \in Inv : Start_open(i)
    \/ \E i \in Inv : Start_write(i)
    \/ \E i \in Inv : Start_fork(i)
    \/ \E i \in Inv : Run_spawn(i)
    \/ \E i \in Inv : Run_wait(i)
    \/ \E i \in Inv : Run_reload(i)
    \/ \E i \in Inv : Run_open(i)
    \/ \E i \in Inv : Run_write(i)
    \/ \E i \in Inv : Delete_remove(i)
    \/ \E i \in Inv : Delete_removeAll(i)
    \/ \E i \in Inv : stateCommand_state(i)
    \/ \E i \in Inv : stateCommand_status(i)
    \/ \E i \in Inv : Signal(i)
    \/ \E p \in Pids : InitExit(p)
    \/ \E p \in Pids : reaper_poll(p)
    \/ \E p \in Pids : reaper_read(p)
    \/ \E p \in Pids : reaper_open(p)
    \/ \E p \in Pids : reaper_write(p)

Spec == Init /\ [][Next]_vars

\* The steps of a start invocation.
StartStep(i) ==
    \/ startCommand(i)
    \/ Start_check(i)
    \/ Start_spawn(i)
    \/ Start_open(i)
    \/ Start_write(i)
    \/ Start_fork(i)

\* A store in which one container has been created and started by earlier
\* invocations: its init process runs, its reaper polls, and ops counts the
\* invocations begun from here on.
InitRestart ==
    /\ dir = TRUE
    /\ file = StateRec("running", 1, 1)
    /\ obs = "running"
    /\ last = StateRec("running", 1, 1)
    /\ epoch = 0
    /\ inv = [i \in Inv |-> IdleInv]
    /\ ops = 0
    /\ clock = 2
    /\ spawned = 1
    /\ alive = {1}
    /\ procGen = [p \in Pids |-> IF p = 1 THEN 1 ELSE 0]
    /\ signalled = {}
    /\ reaper = [p \in Pids |-> IF p = 1 THEN [IdleReaper EXCEPT !.pc = "poll"] ELSE IdleReaper]
    /\ launched = TRUE
    /\ failed = {}
    /\ reused = {}
    /\ input = <<>>
    /\ output = <<>>

SpecRestart == InitRestart /\ [][Next]_vars

\* The same verbs with the invocations run one after the other: an
\* invocation begins only when no other is in progress (the init processes
\* and the reapers still run beside them).
Active(f) == {i \in Inv : f[i].pc \notin {"idle", "done"}}

NextSerial == Next /\ (ops' # ops => Active(inv) = {})

SpecSerial == Init /\ [][NextSerial]_vars

\* The same verbs in an environment that tells an init process failing its
\* bring-up from one ending after exec, and in which the kernel recycles the
\* pids of exited init processes.
NextEnv ==
    \/ Next
    \/ \E p \in Pids : InitFail(p)
    \/ \E p \in Pids : PidReuse(p)
    \/ \E p \in Pids : ForeignExit(p)

SpecEnv == Init /\ [][NextEnv]_vars

\* The steps of an invocation that has begun, and of a forked reaper.
InvStep(i) ==
    \/ Create_mkdir(i) \/ Create_config(i) \/ createState_open(i) \/ createState_write(i)
    \/ StartStep(i)
    \/ Run_spawn(i) \/ Run_wait(i) \/ Run_reload(i) \/ Run_open(i) \/ Run_write(i)
    \/ Delete_remove(i) \/ Delete_removeAll(i)
    \/ stateCommand_state(i) \/ stateCommand_status(i)
    \/ Signal(i)

ReaperStep(p) == reaper_poll(p) \/ reaper_read(p) \/ reaper_open(p) \/ reaper_write(p)

\* Every process that exists is scheduled: an invocation that has begun runs
\* to its end and a forked reaper keeps polling (every 100ms) and goes on to
\* its update.  Nothing obliges an init process to exit or a user to invoke
\* a further verb.
SpecFair ==
    /\ Spec
    /\ \A i \in Inv : WF_vars(InvStep(i))
    /\ \A p \in Pids : WF_vars(ReaperStep(p))

(***************************************************************************)
(* Container ids: createCommand's os.Stat, LinuxFactory.Create's empty-id  *)
(* test and validateID.  An id is written as a sequence of runs, a run     *)
(* being one character repeated n times, with neighbouring runs of         *)
(* different characters.                                                   *)
(***************************************************************************)

IdChars == {"a", ".", "/"}

RunLens == {1, 1023, 1024}

IdRun == [c : IdChars, n : RunLens]

UnitRun == {x \in IdRun : x.n = 1}

Ids ==
    {<<>>}
      \cup {<<r>> : r \in IdRun}
      \cup {id \in {<<r, q>> : r \in IdRun, q \in IdRun} : id[1].c # id[2].c}
      \cup {id \in {<<r, q, t>> : r \in UnitRun, q \in UnitRun, t \in UnitRun} :
              id[1].c # id[2].c /\ id[2].c # id[3].c}

\* The function under examination has not been applied yet.
Pending == [done |-> FALSE]

\* len(id)
RECURSIVE IdLen(_)
IdLen(id) == IF id = <<>> THEN 0 ELSE id[1].n + IdLen(Tail(id))

HasSlash(id) == \E k \in 1..Len(id) : id[k].c = "/"

\* filepath.Base: "." for the empty path; trailing separators are stripped,
\* what follows the last separator is kept; "/" if nothing is left.
Base(id) ==
    IF id = <<>> THEN <<[c |-> ".", n |-> 1]>>
    ELSE LET stripped == IF id[Len(id)].c = "/" THEN SubSeq(id, 1, Len(id) - 1) ELSE id
             slashes == {k \in 1..Len(stripped) : stripped[k].c = "/"}
             lastSlash == IF slashes = {} THEN 0
                          ELSE CHOOSE k \in slashes : \A j \in slashes : j <= k
             rest == SubSeq(stripped, lastSlash + 1, Len(stripped))
         IN  IF rest = <<>> THEN <<[c |-> "/", n |-> 1]>> ELSE rest

\* validateID
validateID(id) ==
    IF IdLen(id) > 1024 THEN "toolong"
    ELSE IF Base(id) # id THEN "invalid"
    ELSE "none"

\* root + "/" + id names the root directory itself when every element of the
\* id is empty or ".".
ResolvesToRoot(id) ==
    \A k \in 1..Len(id) :
      \/ id[k].c = "/"
      \/ /\ id[k].c = "." /\ id[k].n = 1
         /\ (k = 1 \/ id[k - 1].c = "/")
         /\ (k = Len(id) \/ id[k + 1].c = "/")

\* createCommand and LinuxFactory.Create for one id in a store holding no
\* container, with a valid bundle: os.Stat, the empty-id test, MkdirAll,
\* the config, validateID, createState.
CreateWithId(id, rootExists) ==
    IF rootExists /\ ResolvesToRoot(id)
    THEN [done |-> TRUE, ok |-> FALSE, err |-> "exists", mkdir |-> FALSE, registered |-> FALSE]
    ELSE IF id = <<>>
    THEN [done |-> TRUE, ok |-> FALSE, err |-> "empty", mkdir |-> FALSE, registered |-> FALSE]
    ELSE IF validateID(id) # "none"
    THEN [done |-> TRUE, ok |-> FALSE, err |-> validateID(id), mkdir |-> TRUE, registered |-> FALSE]
    ELSE [done |-> TRUE, ok |-> TRUE, err |-> "none", mkdir |-> TRUE, registered |-> TRUE]

InitId ==
    /\ Idle
    /\ input \in [id : Ids, rootExists : BOOLEAN]
    /\ output = Pending

createCommand_id ==
    /\ ~output.done
    /\ output' = CreateWithId(input.id, input.rootExists)
    /\ UNCHANGED <<dir, file, obs, last, epoch, inv, ops, clock, spawned, alive, procGen, signalled,
                   reaper, launched, failed, reused, input>>

NextId == createCommand_id

SpecId == InitId /\ [][NextId]_vars

(***************************************************************************)
(* config.Validate.  Strings are sequences of characters.                  *)
(***************************************************************************)

ArgStrings == {<<>>, <<"s", "h">>}

ArgLists == {<<>>} \cup {<<a>> : a \in ArgStrings} \cup {<<a, b>> : a \in ArgStrings, b \in ArgStrings}

PathStrings == {<<>>, <<"w">>, <<"/", "w">>}

EnvLists == {<<>>, << <<"K", "=", "V">> >>, << <<"K", "V">> >>}

\* What os.Stat finds at root.path.
RootKinds == {"missing", "file", "dir"}

NamespaceTypes == {"pid", "network", "mount", "uts", "ipc", "user", "cgroup", "time", ""}

NamespaceLists == {<<>>} \cup {<<t>> : t \in NamespaceTypes}

MountLists == {<<>>} \cup {<<m>> : m \in [destination : PathStrings, type : {<<>>, <<"p">>}]}

Specs ==
    [process : BOOLEAN, args : ArgLists, cwd : PathStrings, env : EnvLists,
     root : BOOLEAN, rootPath : {<<>>, <<"/", "w">>}, rootKind : RootKinds,
     linux : BOOLEAN, namespaces : NamespaceLists, mounts : MountLists]

\* filepath.IsAbs
IsAbs(path) == path # <<>> /\ path[1] = "/"

\* strings.Contains(str, "=")
ContainsEq(str) == \E k \in 1..Len(str) : str[k] = "="

\* The first element of a sequence of errors that is an error ("none" if
\* there is none): a loop that returns at the first failure.
FirstError(errors) ==
    IF \E k \in 1..Len(errors) : errors[k] # "none"
    THEN errors[CHOOSE k \in 1..Len(errors) :
                  errors[k] # "none" /\ \A j \in 1..(k - 1) : errors[j] = "none"]
    ELSE "none"

validateProcess(spec) ==
    IF ~spec.process THEN "process nil"
    ELSE IF Len(spec.args) = 0 THEN "args empty"
    ELSE IF spec.cwd = <<>> THEN "cwd empty"
    ELSE IF ~IsAbs(spec.cwd) THEN "cwd relative"
    ELSE IF \E k \in 1..Len(spec.env) : ~ContainsEq(spec.env[k]) THEN "env format"
    ELSE "none"

validateRoot(spec) ==
    IF ~spec.root THEN "root nil"
    ELSE IF spec.rootPath = <<>> THEN "root path empty"
    ELSE IF spec.rootKind = "missing" THEN "root missing"
    ELSE "none"

NamespaceError(t) ==
    IF t = "" THEN "namespace empty"
    ELSE IF t \notin {"pid", "network", "mount", "uts", "ipc", "user", "cgroup"}
    THEN "namespace invalid"
    ELSE "none"

validateLinux(spec) ==
    IF ~spec.linux THEN "none"
    ELSE FirstError([k \in 1..Len(spec.namespaces) |-> NamespaceError(spec.namespaces[k])])

MountError(m) ==
    IF m.destination = <<>> THEN "mount destination empty"
    ELSE IF m.type = <<>> THEN "mount type empty"
    ELSE IF ~IsAbs(m.destination) THEN "mount destination relative"
    ELSE "none"

validateMounts(spec) ==
    FirstError([k \in 1..Len(spec.mounts) |-> MountError(spec.mounts[k])])

\* Validate: the first error of process, root, linux, mounts, in that order.
Validate(spec) ==
    IF validateProcess(spec) # "none" THEN validateProcess(spec)
    ELSE IF validateRoot(spec) # "none" THEN validateRoot(spec)
    ELSE IF validateLinux(spec) # "none" THEN validateLinux(spec)
    ELSE validateMounts(spec)

InitValidate ==
    /\ Idle
    /\ input \in Specs
    /\ output = Pending

Config_Validate ==
    /\ ~output.done
    /\ output' = [done |-> TRUE, ok |-> Validate(input) = "none", err |-> Validate(input)]
    /\ UNCHANGED <<dir, file, obs, last, epoch, inv, ops, clock, spawned, alive, procGen, signalled,
                   reaper, launched, failed, reused, input>>

NextValidate == Config_Validate

SpecValidate == InitValidate /\ [][NextValidate]_vars

(***************************************************************************)
(* kill: the signal argument.  Strings are sequences of characters.        *)
(***************************************************************************)

LowerAlpha == <<"a", "b", "c", "d", "e", "f", "g", "h", "i", "j", "k", "l", "m", "n", "o", "p", "q", "r", "s", "t", "u", "v", "w", "x", "y", "z">>

UpperAlpha == <<"A", "B", "C", "D", "E", "F", "G", "H", "I", "J", "K", "L", "M", "N", "O", "P", "Q", "R", "S", "T", "U", "V", "W", "X", "Y", "Z">>

DigitChars == <<"0", "1", "2", "3", "4", "5", "6", "7", "8", "9">>

\* The position of a character in a sequence of characters (0 if absent).
IndexOf(c, chars) ==
    IF \E k \in 1..Len(chars) : chars[k] = c
    THEN CHOOSE k \in 1..Len(chars) : chars[k] = c
    ELSE 0

\* strings.ToUpper
ToUpper(str) ==
    [k \in 1..Len(str) |->
       IF IndexOf(str[k], LowerAlpha) # 0 THEN UpperAlpha[IndexOf(str[k], LowerAlpha)] ELSE str[k]]

\* strings.ToLower, used to build lower-case arguments.
ToLower(str) ==
    [k \in 1..Len(str) |->
       IF IndexOf(str[k], UpperAlpha) # 0 THEN LowerAlpha[IndexOf(str[k], UpperAlpha)] ELSE str[k]]

\* strings.HasPrefix
HasPrefix(str, prefix) ==
    Len(str) >= Len(prefix) /\ SubSeq(str, 1, Len(prefix)) = prefix

SIG == <<"S", "I", "G">>

\* The value of a sequence of decimal digits.
RECURSIVE DigitsValue(_)
DigitsValue(str) ==
    IF str = <<>> THEN 0
    ELSE 10 * DigitsValue(SubSeq(str, 1, Len(str) - 1)) + (IndexOf(str[Len(str)], DigitChars) - 1)

\* strconv.Atoi: an optional sign, then one or more decimal digits.
Atoi(str) ==
    LET signed == str # <<>> /\ str[1] \in {"+", "-"}
        digits == IF signed THEN Tail(str) ELSE str
    IN  IF digits = <<>> \/ \E k \in 1..Len(digits) : IndexOf(digits[k], DigitChars) = 0
        THEN [ok |-> FALSE, n |-> 0]
        ELSE [ok |-> TRUE,
              n |-> IF signed /\ str[1] = "-" THEN 0 - DigitsValue(digits) ELSE DigitsValue(digits)]

\* The signal numbers of package syscall on linux.
Signum ==
    [SIGHUP |-> 1, SIGINT |-> 2, SIGQUIT |-> 3, SIGKILL |-> 9, SIGUSR1 |-> 10,
     SIGUSR2 |-> 12, SIGTERM |-> 15, SIGWINCH |-> 28]

stringToSignal(sig) ==
    CASE sig = <<"S", "I", "G", "T", "E", "R", "M">> -> Signum.SIGTERM
      [] sig = <<"S", "I", "G", "K", "I", "L", "L">> -> Signum.SIGKILL
      [] sig = <<"S", "I", "G", "I", "N", "T">> -> Signum.SIGINT
      [] sig = <<"S", "I", "G", "Q", "U", "I", "T">> -> Signum.SIGQUIT
      [] sig = <<"S", "I", "G", "H", "U", "P">> -> Signum.SIGHUP
      [] sig = <<"S", "I", "G", "U", "S", "R", "1">> -> Signum.SIGUSR1
      [] sig = <<"S", "I", "G", "U", "S", "R", "2">> -> Signum.SIGUSR2
      [] sig = <<"S", "I", "G", "W", "I", "N", "C", "H">> -> Signum.SIGWINCH
      [] OTHER -> 0

\* parseSignal without the step that adds the SIG prefix.
parseSignal_NoPrefix(rawSignal) ==
    IF Atoi(rawSignal).ok THEN [ok |-> TRUE, sig |-> Atoi(rawSignal).n]
    ELSE LET signalNum == stringToSignal(ToUpper(rawSignal))
         IN  IF signalNum = 0 THEN [ok |-> FALSE, sig |-> 0] ELSE [ok |-> TRUE, sig |-> signalNum]

parseSignal(rawSignal) ==
    IF Atoi(rawSignal).ok THEN [ok |-> TRUE, sig |-> Atoi(rawSignal).n]
    ELSE LET upper == ToUpper(rawSignal)
             sig == IF HasPrefix(upper, SIG) THEN upper ELSE SIG \o upper
             signalNum == stringToSignal(sig)
         IN  IF signalNum = 0 THEN [ok |-> FALSE, sig |-> 0] ELSE [ok |-> TRUE, sig |-> signalNum]

\* Signal names without the prefix, as they can be given to kill.
BareNames ==
    {<<"T", "E", "R", "M">>,
     <<"K", "I", "L", "L">>,
     <<"I", "N", "T">>,
     <<"Q", "U", "I", "T">>,
     <<"H", "U", "P">>,
     <<"U", "S", "R", "1">>,
     <<"U", "S", "R", "2">>,
     <<"W", "I", "N", "C", "H">>}

\* Decimal numerals.
RECURSIVE NatNumeral(_)
NatNumeral(n) ==
    IF n < 10 THEN <<DigitChars[n + 1]>>
    ELSE NatNumeral(n \div 10) \o <<DigitChars[(n % 10) + 1]>>

Numeral(n) == IF n < 0 THEN <<"-">> \o NatNumeral(0 - n) ELSE NatNumeral(n)

SignalNumbers == (0 - 9)..64

\* Arguments that are neither numerals nor signal names.
OtherArgs ==
    {<<"S", "I", "G">>,
     <<"S", "T", "O", "P">>,
     <<"S", "I", "G", "S", "T", "O", "P">>,
     <<"S", "I", "G", "S", "I", "G", "T", "E", "R", "M">>,
     <<"T", "E", "R", "M", "X">>,
     <<"1", "x">>,
     <<"x", "1">>,
     <<"-">>,
     <<"9", " ">>,
     <<" ", "T", "E", "R", "M">>,
     <<"9", ".", "0">>,
     <<"S", "I", "G", "T", "E", "R", "M", "9">>}

SignalArgs ==
    {<<>>}
      \cup {prefix \o name : prefix \in {<<>>, SIG, ToLower(SIG)},
                             name \in BareNames \cup {ToLower(n) : n \in BareNames}}
      \cup {Numeral(n) : n \in SignalNumbers}
      \cup {<<"+">> \o Numeral(n) : n \in {9, 15}}
      \cup {<<"0">> \o Numeral(n) : n \in {9}}
      \cup OtherArgs

InitKill ==
    /\ Idle
    /\ input \in [arg : SignalArgs]
    /\ output = Pending

\* killCommand from context.Args().Get(1) on: called is whether
\* container.Signal(sig) is reached.
killCommand_parse ==
    /\ ~output.done
    /\ LET sigstr == IF input.arg = <<>> THEN SIG \o <<"T", "E", "R", "M">> ELSE input.arg
           parsed == parseSignal(sigstr)
       IN  output' = [done |-> TRUE, ok |-> parsed.ok, sig |-> parsed.sig, called |-> parsed.ok]
    /\ UNCHANGED <<dir, file, obs, last, epoch, inv, ops, clock, spawned, alive, procGen, signalled,
                   reaper, launched, failed, reused, input>>

NextKill == killCommand_parse

SpecKill == InitKill /\ [][NextKill]_vars

(***************************************************************************)
(* saveState / loadState: json.MarshalIndent and json.Unmarshal of State.  *)
(* A string is a sequence of characters; BadByte is a byte that is not     *)
(* valid UTF-8, Replacement the character U+FFFD.                          *)
(***************************************************************************)

BadByte == "xFF"

Replacement == "uFFFD"

StoreChars == {"a", "<", "\"", "\\", BadByte, Replacement}

StoreStrings == {<<c>> : c \in StoreChars} \cup {<<c, d>> : c \in StoreChars, d \in {"a", BadByte}}

StatusChars ==
    [created |-> <<"c", "r", "e", "a", "t", "e", "d">>, running |-> <<"r", "u", "n", "n", "i", "n", "g">>, stopped |-> <<"s", "t", "o", "p", "p", "e", "d">>]

\* time.Time: a wall clock reading and, from time.Now(), a monotonic one.
Times == [wall : {0, 1}, mono : BOOLEAN]

\* map[string]string: nil, or a set of key/value pairs.
AnnotationMaps ==
    {[nil |-> TRUE, pairs |-> {}], [nil |-> FALSE, pairs |-> {}],
     [nil |-> FALSE, pairs |-> {<<<<"k">>, <<"v", "<">>>>}]}

States ==
    [id : StoreStrings, pid : {0, 7, 4194304}, bundle : {<<"/", "b">>, <<"/", "b", BadByte>>},
     status : {"created", "running", "stopped"}, created : Times,
     annotations : AnnotationMaps, ociVersion : {<<"1", ".", "3", ".", "0">>}]

\* The JSON text of one character of a string: quote, backslash and '<' are
\* escaped, an invalid byte is written as the escape of U+FFFD.
EncodeChar(c) ==
    CASE c = "\"" -> <<"\\", "\"">>
      [] c = "\\" -> <<"\\", "\\">>
      [] c = "<" -> <<"\\", "u003c">>
      [] c = BadByte -> <<"\\", "ufffd">>
      [] OTHER -> <<c>>

RECURSIVE EncodeString(_)
EncodeString(str) ==
    IF str = <<>> THEN <<>> ELSE EncodeChar(Head(str)) \o EncodeString(Tail(str))

RECURSIVE DecodeString(_)
DecodeString(text) ==
    IF text = <<>> THEN <<>>
    ELSE IF Head(text) = "\\"
    THEN LET c == CASE text[2] = "u003c" -> "<"
                    [] text[2] = "ufffd" -> Replacement
                    [] OTHER -> text[2]
         IN  <<c>> \o DecodeString(SubSeq(text, 3, Len(text)))
    ELSE <<Head(text)>> \o DecodeString(Tail(text))

\* json.MarshalIndent(state): annotations are omitted when empty; the time
\* is written as its wall clock reading.
MarshalState(state) ==
    [id |-> EncodeString(state.id),
     pid |-> Numeral(state.pid),
     bundle |-> EncodeString(state.bundle),
     status |-> EncodeString(StatusChars[state.status]),
     created |-> Numeral(state.created.wall),
     annotations |->
       IF state.annotations.pairs = {} THEN [present |-> FALSE, pairs |-> {}]
       ELSE [present |-> TRUE,
             pairs |-> {<<EncodeString(kv[1]), EncodeString(kv[2])>> : kv \in state.annotations.pairs}],
     ociVersion |-> EncodeString(state.ociVersion)]

\* json.Unmarshal(data, &state)
UnmarshalState(data) ==
    [id |-> DecodeString(data.id),
     pid |-> Atoi(data.pid).n,
     bundle |-> DecodeString(data.bundle),
     status |-> CHOOSE st \in DOMAIN StatusChars : StatusChars[st] = DecodeString(data.status),
     created |-> [wall |-> Atoi(data.created).n, mono |-> FALSE],
     annotations |->
       IF ~data.annotations.present THEN [nil |-> TRUE, pairs |-> {}]
       ELSE [nil |-> FALSE,
             pairs |-> {<<DecodeString(kv[1]), DecodeString(kv[2])>> : kv \in data.annotations.pairs}],
     ociVersion |-> DecodeString(data.ociVersion)]

InitStore ==
    /\ Idle
    /\ input \in States
    /\ output = Pending

\* saveState(input) followed by loadState(), nothing written in between.
saveState_loadState ==
    /\ ~output.done
    /\ output' = [done |-> TRUE, state |-> UnmarshalState(MarshalState(input))]
    /\ UNCHANGED <<dir, file, obs, last, epoch, inv, ops, clock, spawned, alive, procGen, signalled,
                   reaper, launched, failed, reused, input>>

NextStore == saveState_loadState

SpecStore == InitStore /\ [][NextStore]_vars

(***************************************************************************)
(* The init process: bring-up in the child, then exec.                     *)
(***************************************************************************)

Call(op, target, flags) == [op |-> op, target |-> target, flags |-> flags]

\* prepareRoot
PrepareRootCalls ==
    <<Call("mount", "/", {"MS_PRIVATE", "MS_REC"}),
      Call("mount", "/", {"MS_SLAVE", "MS_REC"}),
      Call("mount", "rootfs", {"MS_BIND", "MS_REC"})>>

\* pivotRoot
PivotRootCalls ==
    <<Call("open", "/", {"O_DIRECTORY", "O_RDONLY"}),
      Call("open", "rootfs", {"O_DIRECTORY", "O_RDONLY"}),
      Call("fchdir", "newroot", {}),
      Call("pivot_root", ".", {}),
      Call("fchdir", "oldroot", {}),
      Call("mount", ".", {"MS_SLAVE", "MS_REC"}),
      Call("unmount", ".", {"MNT_DETACH"}),
      Call("chdir", "/", {})>>

\* setupRootfs after pivotRoot
ProcCalls ==
    <<Call("mkdirall", "/proc", {}),
      Call("mount", "/proc", {"MS_NOSUID", "MS_NOEXEC", "MS_NODEV"})>>

\* How process.args[0] is found: an absolute path, a path that exists under
\* the rootfs path, a name found in the configured PATH, a name missing from
\* it, or no PATH in process.env.
ExecKinds == {"abs", "inRootfs", "inPath", "notInPath", "noPath"}

ChildStart ==
    [pc |-> "prepareRoot", trace |-> <<>>, failedAt |-> 0, exit |-> 0, image |-> "init",
     err |-> FALSE]

\* The child makes the calls one after the other: either all succeed and it
\* goes on to next, or one fails, the error is returned up to main and the
\* process exits with status 1.
RunCalls(calls, next) ==
    /\ \E good \in 0..Len(calls) :
         output' =
           IF good = Len(calls)
           THEN [output EXCEPT !.pc = next, !.trace = @ \o calls]
           ELSE [output EXCEPT !.pc = "exited", !.trace = @ \o SubSeq(calls, 1, good + 1),
                               !.failedAt = Len(output.trace) + good + 1,
                               !.exit = 1, !.err = TRUE]
    /\ UNCHANGED <<dir, file, obs, last, epoch, inv, ops, clock, spawned, alive, procGen, signalled,
                   reaper, launched, failed, reused, input>>

InitChild ==
    /\ Idle
    /\ input \in [hostname : BOOLEAN, exec : ExecKinds]
    /\ output = ChildStart

prepareRoot ==
    /\ output.pc = "prepareRoot"
    /\ RunCalls(PrepareRootCalls, "chdir")

setupRootfs_chdir ==
    /\ output.pc = "chdir"
    /\ RunCalls(<<Call("chdir", "rootfs", {})>>, "pivotRoot")

pivotRoot ==
    /\ output.pc = "pivotRoot"
    /\ RunCalls(PivotRootCalls, "proc")

\* setupRootfs going on to the exec although mounting /proc failed.
setupRootfs_proc_Ignored ==
    /\ output.pc = "proc"
    /\ \E good \in 0..Len(ProcCalls) :
         output' =
           IF good = Len(ProcCalls)
           THEN [output EXCEPT !.pc = "hostname", !.trace = @ \o ProcCalls]
           ELSE [output EXCEPT !.pc = "hostname", !.trace = @ \o SubSeq(ProcCalls, 1, good + 1),
                               !.failedAt = Len(output.trace) + good + 1]
    /\ UNCHANGED <<dir, file, obs, last, epoch, inv, ops, clock, spawned, alive, procGen, signalled,
                   reaper, launched, failed, reused, input>>

setupRootfs_proc ==
    /\ output.pc = "proc"
    /\ RunCalls(ProcCalls, "hostname")

\* newInitProcess: unix.Sethostname when config.Hostname is set.
init_hostname ==
    /\ output.pc = "hostname"
    /\ RunCalls(IF input.hostname THEN <<Call("sethostname", "", {})>> ELSE <<>>, "resolve")

\* newInitProcess: the executable path; only a relative args[0] is looked up.
init_resolve ==
    /\ output.pc = "resolve"
    /\ output' =
         IF input.exec \in {"notInPath", "noPath"}
         THEN [output EXCEPT !.pc = "exited", !.trace = Append(@, Call("resolve", "args[0]", {})),
                             !.failedAt = Len(output.trace) + 1, !.exit = 1, !.err = TRUE]
         ELSE [output EXCEPT !.pc = "exec", !.trace = Append(@, Call("resolve", "args[0]", {}))]
    /\ UNCHANGED <<dir, file, obs, last, epoch, inv, ops, clock, spawned, alive, procGen, signalled,
                   reaper, launched, failed, reused, input>>

\* newInitProcess: syscall.Exec; when it returns, the error goes up to main,
\* which prints it and exits with status 1.
init_exec ==
    /\ output.pc = "exec"
    /\ \E replaced \in BOOLEAN :
         output' =
           IF replaced
           THEN [output EXCEPT !.pc = "user", !.image = "user",
                               !.trace = Append(@, Call("exec", "args[0]", {}))]
           ELSE [output EXCEPT !.pc = "exited", !.trace = Append(@, Call("exec", "args[0]", {})),
                               !.failedAt = Len(output.trace) + 1, !.exit = 1, !.err = TRUE]
    /\ UNCHANGED <<dir, file, obs, last, epoch, inv, ops, clock, spawned, alive, procGen, signalled,
                   reaper, launched, failed, reused, input>>

NextChild ==
    \/ prepareRoot
    \/ setupRootfs_chdir
    \/ pivotRoot
    \/ setupRootfs_proc
    \/ init_hostname
    \/ init_resolve
    \/ init_exec

SpecChild == InitChild /\ [][NextChild]_vars

(***************************************************************************)
(* The supervisor: the clone flags of the init process.                    *)
(***************************************************************************)

NamespaceKinds == {"mount", "pid", "uts", "ipc", "network", "user", "cgroup"}

\* NamespaceCloneFlags: the flag of a namespace type, none for any other.
NamespaceCloneFlags(nsType) ==
    CASE nsType = "mount" -> {"CLONE_NEWNS"}
      [] nsType = "uts" -> {"CLONE_NEWUTS"}
      [] nsType = "ipc" -> {"CLONE_NEWIPC"}
      [] nsType = "pid" -> {"CLONE_NEWPID"}
      [] nsType = "network" -> {"CLONE_NEWNET"}
      [] nsType = "user" -> {"CLONE_NEWUSER"}
      [] OTHER -> {}

\* GetNamespaceFlagMappings: the flags of a list of namespaces or-ed together.
GetNamespaceFlagMappings(namespaces) ==
    UNION {NamespaceCloneFlags(ns) : ns \in namespaces}

\* newInitProcess, supervisor branch: SysProcAttr.Cloneflags is a constant;
\* the configuration's namespaces are not read.
Cloneflags(namespaces) == {"CLONE_NEWNS", "CLONE_NEWPID", "CLONE_NEWUTS"}

InitClone ==
    /\ Idle
    /\ input \in [namespaces : SUBSET NamespaceKinds]
    /\ output = Pending

newInitProcess_supervisor ==
    /\ ~output.done
    /\ output' = [done |-> TRUE, flags |-> Cloneflags(input.namespaces)]
    /\ UNCHANGED <<dir, file, obs, last, epoch, inv, ops, clock, spawned, alive, procGen, signalled,
                   reaper, launched, failed, reused, input>>

NextClone == newInitProcess_supervisor

SpecClone == InitClone /\ [][NextClone]_vars

(***************************************************************************)
(* create and run: where the state directory of an id lies.                *)
(***************************************************************************)

DotDot == <<[c |-> ".", n |-> 2]>>

DirIds == Ids \cup {DotDot, DotDot \o <<[c |-> "a", n |-> 1]>>}

\* filepath.Join(l.root, id) relative to the root, for an id that is "/" or
\* has no separator: the root itself, its parent, or the child named id.
\* Any other id has a separator and names something below or beside these.
containerRoot(id) ==
    IF ResolvesToRoot(id) THEN [where |-> "root", name |-> <<>>]
    ELSE IF id = DotDot THEN [where |-> "parent", name |-> <<>>]
    ELSE IF ~HasSlash(id) THEN [where |-> "child", name |-> id]
    ELSE [where |-> "nested", name |-> Base(id)]

\* os.Stat(root + "/" + id) succeeds: the root and its parent are found
\* only through an existing root; no child exists in an empty store.
StatFinds(id, rootExists) ==
    rootExists /\ containerRoot(id).where \in {"root", "parent"}

\* createCommand or runCommand with LinuxFactory.Create for one id in a
\* store holding no container, with a valid bundle: state.ID is the id given.
CreateAt(verb, id, rootExists) ==
    IF verb = "create" /\ StatFinds(id, rootExists)
    THEN [done |-> TRUE, ok |-> FALSE, dir |-> containerRoot(id), stateId |-> <<>>]
    ELSE IF id = <<>> \/ validateID(id) # "none"
    THEN [done |-> TRUE, ok |-> FALSE, dir |-> containerRoot(id), stateId |-> <<>>]
    ELSE [done |-> TRUE, ok |-> TRUE, dir |-> containerRoot(id), stateId |-> id]

InitDir ==
    /\ Idle
    /\ input \in [verb : {"create", "run"}, id : DirIds, rootExists : BOOLEAN]
    /\ output = Pending

Create_dir ==
    /\ ~output.done
    /\ output' = CreateAt(input.verb, input.id, input.rootExists)
    /\ UNCHANGED <<dir, file, obs, last, epoch, inv, ops, clock, spawned, alive, procGen, signalled,
                   reaper, launched, failed, reused, input>>

NextDir == Create_dir

SpecDir == InitDir /\ [][NextDir]_vars

(***************************************************************************)
(* Supervisor or child: what newInitProcess reads from os.Args.            *)
(***************************************************************************)

ArgWords == {"c1", "init", "start"}

\* os.Args of an invocation: the global --root flag, the verb, its flags
\* and arguments.
OsArgs(verb, root, id, bundle) ==
    <<"hackontainer", "--root", root, verb>>
      \o (IF verb \in {"create", "run"} THEN <<"--bundle", bundle, id>>
          ELSE IF verb = "init" THEN <<id, bundle>>
          ELSE <<id>>)

\* newInitProcess: some element of os.Args is the word init.
isInit(args) == \E k \in 1..Len(args) : args[k] = "init"

\* The verbs whose action reaches newInitProcess (start and run through
\* Start and Run, init through InitProcess).
ReachesNewInitProcess(verb) == verb \in {"start", "run", "init"}

InitRole ==
    /\ Idle
    /\ input \in [verb : Verbs \cup {"init"}, root : {"r", "init"}, id : ArgWords,
                  bundle : {"b", "init"}]
    /\ output = Pending

\* The invocation runs up to newInitProcess, which either sets up the rootfs
\* and execs in this process or prepares the command that re-executes the
\* binary as init.
newInitProcess_role ==
    /\ ~output.done
    /\ LET args == OsArgs(input.verb, input.root, input.id, input.bundle)
           child == ReachesNewInitProcess(input.verb) /\ isInit(args)
       IN  output' = [done |-> TRUE,
                      role |-> IF child THEN "child" ELSE "supervisor",
                      bringUp |-> child]
    /\ UNCHANGED <<dir, file, obs, last, epoch, inv, ops, clock, spawned, alive, procGen, signalled,
                   reaper, launched, failed, reused, input>>

NextRole == newInitProcess_role

SpecRole == InitRole /\ [][NextRole]_vars

(***************************************************************************)
(* The subreaper variant: RegisterContainer against the SIGCHLD handler.   *)
(* output holds the supervisor's state: its children, pidMap, the handler  *)
(* goroutine's position and the status of each child's state record.       *)
(***************************************************************************)

Children == {1, 2}

\* The children have been spawned; those in input.registers are container
\* init processes that the caller will register, each with its own root.
ReaperStart ==
    [running |-> Children, zombie |-> {}, unregistered |-> input.registers, pidMap |-> {},
     status |-> [c \in Children |-> "running"], stops |-> [c \in Children |-> 0],
     sigChan |-> FALSE, pc |-> "receive", pid |-> 0]

InitSubreaper ==
    /\ Idle
    /\ input \in [registers : SUBSET Children]
    /\ output = ReaperStart

\* reaper.RegisterContainer: r.pidMap[pid] = containerRoot under the mutex.
RegisterContainer(c) ==
    /\ c \in output.unregistered
    /\ output' = [output EXCEPT !.unregistered = @ \ {c}, !.pidMap = @ \cup {c}]
    /\ UNCHANGED <<dir, file, obs, last, epoch, inv, ops, clock, spawned, alive, procGen, signalled,
                   reaper, launched, failed, reused, input>>

\* A child exits: it stays a zombie until waited for, and SIGCHLD is put in
\* the handler's channel, which holds one signal.
ChildExit(c) ==
    /\ c \in output.running
    /\ output' = [output EXCEPT !.running = @ \ {c}, !.zombie = @ \cup {c}, !.sigChan = TRUE]
    /\ UNCHANGED <<dir, file, obs, last, epoch, inv, ops, clock, spawned, alive, procGen, signalled,
                   reaper, launched, failed, reused, input>>

\* handleSigchld: <-sigChan, then r.reap().
handleSigchld ==
    /\ output.pc = "receive" /\ output.sigChan
    /\ output' = [output EXCEPT !.sigChan = FALSE, !.pc = "reap"]
    /\ UNCHANGED <<dir, file, obs, last, epoch, inv, ops, clock, spawned, alive, procGen, signalled,
                   reaper, launched, failed, reused, input>>

\* reap: Wait4(-1, WNOHANG) returns an exited child, or nothing and reap
\* returns to the receive.
reap ==
    /\ output.pc = "reap"
    /\ \/ /\ output.zombie = {}
          /\ output' = [output EXCEPT !.pc = "receive"]
       \/ \E c \in output.zombie :
            output' = [output EXCEPT !.zombie = @ \ {c}, !.pc = "lookup", !.pid = c]
    /\ UNCHANGED <<dir, file, obs, last, epoch, inv, ops, clock, spawned, alive, procGen, signalled,
                   reaper, launched, failed, reused, input>>

\* updateContainerState: the lookup and delete in pidMap under the mutex; a
\* pid that is not in the map is dropped.
updateContainerState_lookup ==
    /\ output.pc = "lookup"
    /\ output' = IF output.pid \in output.pidMap
                 THEN [output EXCEPT !.pidMap = @ \ {output.pid}, !.pc = "write"]
                 ELSE [output EXCEPT !.pc = "reap", !.pid = 0]
    /\ UNCHANGED <<dir, file, obs, last, epoch, inv, ops, clock, spawned, alive, procGen, signalled,
                   reaper, launched, failed, reused, input>>

\* updateContainerState: read the record, set Status = Stopped, write it.
updateContainerState_write ==
    /\ output.pc = "write"
    /\ output' = [output EXCEPT !.status[output.pid] = "stopped",
                                !.stops[output.pid] = @ + 1,
                                !.pc = "reap", !.pid = 0]
    /\ UNCHANGED <<dir, file, obs, last, epoch, inv, ops, clock, spawned, alive, procGen, signalled,
                   reaper, launched, failed, reused, input>>

NextSubreaper ==
    \/ \E c \in Children : RegisterContainer(c)
    \/ \E c \in Children : ChildExit(c)
    \/ handleSigchld
    \/ reap
    \/ updateContainerState_lookup
    \/ updateContainerState_write

SpecSubreaper == InitSubreaper /\ [][NextSubreaper]_vars

(***************************************************************************)
(* Properties                                                              *)
(***************************************************************************)

Done(i, v) == inv[i].verb = v /\ inv[i].pc = "done"

\* C1: a successful create has written a record with status created and
\* pid 0 and has spawned nothing; as long as no start or run has been
\* invoked no init process exists; and a create that ran alone leaves
\* exactly that record in the state file.
C1_CreatePersistsCreated ==
    /\ \A i \in Inv :
         Done(i, "create") /\ inv[i].result = "ok" =>
           /\ inv[i].wrote
           /\ inv[i].st.kind = "rec"
           /\ inv[i].st.status = "created"
           /\ inv[i].st.pid = 0
           /\ inv[i].proc = 0
           /\ (ops = 1 => dir /\ file = inv[i].st)
    /\ (~launched => spawned = 0 /\ alive = {})

C1_Witness ==
    \E i \in Inv :
      /\ Done(i, "create") /\ inv[i].result = "ok"
      /\ file = inv[i].st /\ file.status = "created" /\ file.pid = 0
      /\ spawned = 0

\* C2: a start whose read of the state shows a status other than created
\* (running, stopped) goes no further than the status switch, ends with an
\* error, has spawned no init process and has not opened or written the
\* state file; a start that spawned, wrote or succeeded had read created.
C2_StartOnlyFromCreated ==
    \A i \in Inv :
      inv[i].verb = "start" =>
        /\ (inv[i].seen \in {"running", "stopped"} =>
              /\ inv[i].pc \in {"status", "done"}
              /\ (inv[i].pc = "done" => inv[i].result = "error")
              /\ inv[i].proc = 0 /\ ~inv[i].wrote /\ ~inv[i].fd)
        /\ (inv[i].proc # 0 \/ inv[i].wrote \/ inv[i].fd \/ inv[i].result = "ok" =>
              inv[i].seen = "created")

\* create; start; start: the second start fails on a running container
\* with the one init process and the record as the first start left them.
C2_Witness ==
    \E i \in Inv :
      /\ Done(i, "start") /\ inv[i].result = "error" /\ inv[i].seen = "running"
      /\ spawned = 1
      /\ file.kind = "rec" /\ file.status = "running" /\ file.pid = 1

\* C3: a delete that finds the container running fails and removes nothing.
C3_DeleteRunningFails ==
    \A i \in Inv :
      inv[i].verb = "delete" /\ inv[i].seen = "running" =>
        inv[i].pc = "done" /\ inv[i].result = "error"

\* C4: the persisted status only moves along absent -> created -> running
\* -> stopped, and from created or stopped to absent.
Edges ==
    { <<"absent", "created">>, <<"created", "running">>, <<"running", "stopped">>,
      <<"created", "absent">>, <<"stopped", "absent">> }

C4_StatusFollowsStateMachine == [][obs' = obs \/ <<obs, obs'>> \in Edges]_vars

\* C5: concurrent verbs leave what some serial order of them leaves; in
\* every serial order a state record has at most one init process spawned
\* for it.
C5_SerialOutcome ==
    \A p, q \in Pids :
      procGen[p] # 0 /\ procGen[p] = procGen[q] => p = q

\* C6: no invocation ever reads a state file that does not parse.
C6_ReadsParse == \A i \in Inv : inv[i].err # "parse"

\* C7: a create that made the directory and then failed has removed it.
C7_FailedCreateLeavesNoDir ==
    \A i \in Inv :
      Done(i, "create") /\ inv[i].result = "error" /\ inv[i].mkdir /\ ~inv[i].existed =>
        ~dir \/ epoch > inv[i].epoch

\* C8: a create that finds the directory of its id returns an error without
\* creating, opening or writing anything, whatever the container's status.
C8_DuplicateCreateFails ==
    \A i \in Inv :
      inv[i].verb = "create" /\ inv[i].sawDir =>
        /\ inv[i].pc = "done" /\ inv[i].result = "error" /\ inv[i].err = "exists"
        /\ ~inv[i].mkdir /\ ~inv[i].wrote /\ ~inv[i].fd /\ inv[i].proc = 0

C8_Witness ==
    \E i \in Inv :
      /\ Done(i, "create") /\ inv[i].sawDir /\ inv[i].result = "error"
      /\ file.kind = "rec" /\ file.status = "running" /\ file.pid \in alive

\* C9: a run for an id whose directory exists fails without writing the
\* state record and without spawning an init process.
C9_RunExistingFails ==
    \A i \in Inv :
      inv[i].verb = "run" /\ inv[i].existed =>
        /\ inv[i].pc = "done" /\ inv[i].result = "error"
        /\ ~inv[i].wrote /\ inv[i].proc = 0

\* C10: of the creates that ran in one lifetime of the directory at most
\* one returns success.
C10_OneCreateWins ==
    \A i, j \in Inv :
      /\ Done(i, "create") /\ inv[i].result = "ok"
      /\ Done(j, "create") /\ inv[j].result = "ok"
      /\ inv[i].epoch = inv[j].epoch
      => i = j

\* C11: a start that returned success has written a record with status
\* running and the pid of the init process it spawned for that record; no
\* step of start waits for anything, the exit of the init included; every
\* record with status running, in the file or as one read of the file by a
\* start, kill or delete returned it, carries the nonzero pid of an init
\* process spawned for it; and a start that ran
\* after a create alone leaves exactly its record in the file until the
\* reaper rewrites it.
C11_StartPersistsRunningPid ==
    /\ \A i \in Inv :
         Done(i, "start") /\ inv[i].result = "ok" =>
           /\ inv[i].wrote
           /\ inv[i].st.status = "running"
           /\ inv[i].proc # 0 /\ inv[i].proc <= spawned
           /\ inv[i].st.pid = inv[i].proc
           /\ procGen[inv[i].proc] = inv[i].st.created
           /\ (ops = 2 /\ spawned = 1 /\ reaper[inv[i].proc].pc \in {"none", "poll", "read"} =>
                 dir /\ file = inv[i].st)
    /\ \A i \in Inv :
         inv[i].verb = "start" /\ inv[i].pc # "done" => ENABLED StartStep(i)
    /\ (file.kind = "rec" /\ file.status = "running" =>
          file.pid \in 1..spawned /\ procGen[file.pid] = file.created)
    /\ \A i \in Inv :
         /\ inv[i].verb \in {"start", "kill", "delete"}
         /\ inv[i].st.kind = "rec" /\ inv[i].st.status = "running"
         => inv[i].st.pid \in 1..spawned /\ procGen[inv[i].st.pid] = inv[i].st.created

\* create; start: start has returned while its init process is still alive
\* and the file holds running with that pid.
C11_Witness ==
    \E i \in Inv :
      /\ Done(i, "start") /\ inv[i].result = "ok"
      /\ inv[i].proc \in alive
      /\ file = inv[i].st /\ file.status = "running" /\ file.pid = inv[i].proc

\* C12: a start whose init process could not be constructed or spawned
\* returns the error having spawned nothing and neither opened nor written
\* the state file; when it followed a create (or the create half of a run)
\* with nothing else launched, the file still holds status created, pid 0.
C12_LauncherFailureLeavesCreated ==
    \A i \in Inv :
      inv[i].verb = "start" /\ inv[i].err = "launch" =>
        /\ inv[i].pc = "done" /\ inv[i].result = "error"
        /\ inv[i].seen = "created"
        /\ inv[i].proc = 0 /\ ~inv[i].wrote /\ ~inv[i].fd
        /\ (ops = 2 /\ spawned = 0 =>
              dir /\ file.kind = "rec" /\ file.status = "created" /\ file.pid = 0)

\* create; start with a failing launcher.
C12_Witness ==
    \E i \in Inv :
      /\ Done(i, "start") /\ inv[i].err = "launch"
      /\ spawned = 0 /\ alive = {}
      /\ file.kind = "rec" /\ file.status = "created" /\ file.pid = 0

\* C13: when the bring-up of an init process fails, the start that spawned
\* it returns an error and the status running is never recorded with its pid.
C13_BringUpFailureFailsStart ==
    /\ \A i \in Inv :
         inv[i].verb = "start" /\ inv[i].proc \in failed =>
           inv[i].result # "ok" /\ ~inv[i].wrote
    /\ (file.kind = "rec" /\ file.status = "running" => file.pid \notin failed)

\* C14: once the init process of a running container has exited, the state
\* file eventually holds a complete record that is no longer running with
\* that pid (or is removed by a delete).
C14_ExitedEventuallyStopped ==
    \A p \in Pids :
      (file.kind = "rec" /\ file.status = "running" /\ file.pid = p /\ p \notin alive)
        ~> (file.kind \in {"rec", "none"} /\ ~(file.status = "running" /\ file.pid = p))

\* C15: a state call reports running only if the init process of the record
\* it reads is alive at that moment.
C15_StateReconciles ==
    [][\A i \in Inv :
         /\ inv[i].verb = "state" /\ inv[i].pc = "status"
         /\ inv'[i].pc = "done" /\ inv'[i].result = "ok"
         /\ inv'[i].st.status = "running"
         => file.pid \in alive]_vars

\* C16: an exited init process whose pid another process has taken counts as
\* dead: the reaper's probe lets it leave the poll loop, and no state call
\* reports the record running.
C16_PidReuseSafe ==
    /\ [](\A p \in Pids :
            reaper[p].pc = "poll" /\ p \notin alive => ENABLED reaper_poll(p))
    /\ [][\A i \in Inv :
            /\ inv[i].verb = "state" /\ inv[i].pc = "status"
            /\ inv'[i].pc = "done" /\ inv'[i].result = "ok"
            /\ inv'[i].st.status = "running"
            => ~(file.pid \notin alive /\ file.pid \in reused)]_vars

\* C17: once a state call has reported a record stopped, that record (told
\* by its Created stamp) is never again running or created in the file.
C17_StoppedAbsorbing ==
    \A i \in Inv :
      /\ Done(i, "state") /\ inv[i].result = "ok" /\ inv[i].st.status = "stopped"
      /\ file.kind = "rec" /\ file.created = inv[i].st.created
      => file.status = "stopped"

C19_KillNeverWrites ==
    /\ [](\A i \in Inv :
            inv[i].verb = "kill" => ~inv[i].wrote /\ ~inv[i].fd /\ inv[i].proc = 0)
    /\ [][\A i \in Inv :
            inv'[i].verb = "kill" /\ inv'[i] # inv[i] =>
              file' = file /\ obs' = obs /\ dir' = dir]_vars

\* create; start; kill: the signal has been delivered and the file still
\* holds the running record the kill read.
C19_Witness ==
    \E i \in Inv :
      /\ Done(i, "kill") /\ inv[i].result = "ok"
      /\ inv[i].st.pid \in signalled
      /\ file = inv[i].st /\ file.status = "running"

\* C20: a run that returned success spawned an init process that has
\* exited and wrote a record with status stopped; a run that ran alone
\* leaves the directory and exactly that record; and the directory is only
\* ever removed by a step of a delete.
C20_RunReturnsStopped ==
    /\ [](\A i \in Inv :
            /\ (Done(i, "run") /\ inv[i].result = "ok" =>
                  /\ inv[i].proc # 0 /\ inv[i].proc \notin alive
                  /\ inv[i].wrote
                  /\ inv[i].st.kind = "rec" /\ inv[i].st.status = "stopped"
                  /\ (ops = 1 => file = inv[i].st))
            /\ (inv[i].verb = "run" /\ ops = 1 => dir /\ epoch = 0))
    /\ [][dir /\ ~dir' =>
            \E i \in Inv : inv[i].verb = "delete" /\ inv[i].pc = "rmdir"]_vars

\* run alone: it has returned success, its init process is gone and the file
\* holds the stopped record.
C20_Witness ==
    \E i \in Inv :
      /\ Done(i, "run") /\ inv[i].result = "ok"
      /\ inv[i].proc # 0 /\ inv[i].proc \notin alive
      /\ dir /\ file = inv[i].st /\ file.status = "stopped"

\* C21: whenever no invocation and no reaper is at work, the container
\* directory exists exactly when the container does (its state record is
\* there).
C21_DirIffContainer ==
    /\ Active(inv) = {}
    /\ \A p \in Pids : reaper[p].pc \notin {"open", "write"}
    => (dir <=> file.kind = "rec")

\* C22: a delete whose Load succeeded always ends in success and its last
\* step leaves neither directory nor state file, whatever it found there; a
\* step of a delete taken when the id is absent leaves it absent; and a
\* delete of an absent id ends with the not-found error having made,
\* opened and written nothing.
C22_DeleteIdempotent ==
    /\ [](\A i \in Inv :
            Done(i, "delete") =>
              /\ ~inv[i].mkdir /\ ~inv[i].wrote /\ ~inv[i].fd /\ inv[i].proc = 0
              /\ (inv[i].result = "error" => inv[i].err \in {"notfound", "parse"}))
    /\ [][\A i \in Inv :
            inv'[i].verb = "delete" /\ inv'[i] # inv[i] =>
              /\ (inv[i].pc = "rmdir" => ~dir' /\ file' = NoRec /\ inv'[i].result = "ok")
              /\ (~dir /\ file = NoRec => ~dir' /\ file' = NoRec)
              /\ (ops' # ops /\ file = NoRec =>
                    inv'[i].pc = "done" /\ inv'[i].err = "notfound" /\ dir' = dir)]_vars

\* run (the container ends stopped); delete; delete: the second delete has
\* failed with not-found and the id is as absent as the first delete left it.
C22_Witness ==
    \E i \in Inv :
      /\ Done(i, "delete") /\ inv[i].err = "notfound"
      /\ spawned = 1 /\ epoch = 1
      /\ ~dir /\ file = NoRec

\* C23: every complete record in the state file with status running has a
\* pid above 0 and a nonzero init start time.
C23_RunningHasPidAndStartTime ==
    file.kind = "rec" /\ file.status = "running" =>
      file.pid > 0 /\ InitStartTime(file) # 0

\* C24: every complete record with status created, in the state file or
\* held by a create, run, start, kill or delete that read or is about to
\* write it, has pid 0.
C24_CreatedHasPidZero ==
    /\ (file.kind = "rec" /\ file.status = "created" => file.pid = 0)
    /\ (last.kind = "rec" /\ last.status = "created" => last.pid = 0)
    /\ \A i \in Inv :
         /\ inv[i].verb # "state"
         /\ inv[i].st.kind = "rec" /\ inv[i].st.status = "created"
         => inv[i].st.pid = 0

\* create; start has spawned the init process and not yet saved: the file
\* still holds created with pid 0.
C24_Witness ==
    \E i \in Inv :
      /\ inv[i].verb = "start" /\ inv[i].pc = "open" /\ inv[i].proc \in alive
      /\ file.kind = "rec" /\ file.status = "created" /\ file.pid = 0

\* C25: the record a successful run leaves carries the nonzero pid of the
\* init process it launched, and the pid of a record in the state file, once
\* nonzero, is the pid of every later record until the file is removed.
C25_PidSetAtLaunchNeverCleared ==
    /\ [](\A i \in Inv :
            Done(i, "run") /\ inv[i].result = "ok" => inv[i].st.pid # 0)
    /\ [][last.kind = "rec" /\ last.pid # 0 /\ last'.kind = "rec" =>
            last'.pid = last.pid]_vars

\* C26: once the state file has held a record with status stopped, every
\* later record it holds, until it is removed, has the same pid and the same
\* created timestamp.
C26_StoppedRecordFrozen ==
    [][last.kind = "rec" /\ last.status = "stopped" /\ last'.kind = "rec" =>
         last'.pid = last.pid /\ last'.created = last.created]_vars

\* C27: an id that is empty, longer than 1024 or contains '/' makes create
\* fail without writing a state record; a non-empty id of at most 1024
\* characters without '/' whose path is free is accepted.
C27_IdValidation ==
    output.done =>
      /\ (input.id = <<>> \/ IdLen(input.id) > 1024 \/ HasSlash(input.id) =>
            ~output.ok /\ ~output.registered)
      /\ (/\ input.id # <<>> /\ IdLen(input.id) <= 1024 /\ ~HasSlash(input.id)
          /\ ~(input.rootExists /\ ResolvesToRoot(input.id))
          => output.ok)

\* C28: Validate accepts a configuration exactly when process is present,
\* args is non-empty with every element non-empty, cwd is present and
\* absolute, every env entry contains '=', root is present with a non-empty
\* path that exists and is a directory, every namespace kind is one of the
\* seven known ones, and every mount has an absolute destination and a type.
C28_ValidateIff ==
    output.done =>
      (output.ok <=>
         /\ input.process
         /\ Len(input.args) > 0
         /\ \A k \in 1..Len(input.args) : input.args[k] # <<>>
         /\ input.cwd # <<>> /\ IsAbs(input.cwd)
         /\ \A k \in 1..Len(input.env) : ContainsEq(input.env[k])
         /\ input.root /\ input.rootPath # <<>> /\ input.rootKind = "dir"
         /\ (input.linux =>
               \A k \in 1..Len(input.namespaces) :
                 input.namespaces[k] \in {"pid", "network", "mount", "uts", "ipc", "user", "cgroup"})
         /\ \A k \in 1..Len(input.mounts) :
              IsAbs(input.mounts[k].destination) /\ input.mounts[k].type # <<>>)

\* C29: for kill, no signal argument means SIGTERM; a numeric argument
\* denotes that signal number; for every recognized signal name N the forms
\* N and SIG+N parse to the same signal; any other name is rejected with an
\* error and container.Signal is never reached.
C29_SignalParsing ==
    output.done =>
      LET Recognized == {name \in BareNames : stringToSignal(SIG \o name) # 0}
          Forms == Recognized \cup {SIG \o name : name \in Recognized}
          Numeric == {Numeral(n) : n \in SignalNumbers}
      IN  /\ (input.arg = <<>> =>
                output.ok /\ output.called /\ output.sig = Signum.SIGTERM)
          /\ \A n \in SignalNumbers :
                input.arg = Numeral(n) => output.ok /\ output.called /\ output.sig = n
          /\ \A name \in Recognized :
                input.arg \in {name, SIG \o name} =>
                  output.ok /\ output.called /\ output.sig = stringToSignal(SIG \o name)
          /\ (input.arg \in OtherArgs /\ ToUpper(input.arg) \notin Forms =>
                ~output.ok /\ ~output.called)

C29_Witness ==
    \/ /\ output.done /\ input.arg = <<"T", "E", "R", "M">>
       /\ output.called /\ output.sig = Signum.SIGTERM
    \/ /\ output.done /\ input.arg = <<"S", "T", "O", "P">>
       /\ ~output.ok /\ ~output.called

\* C30: saving a state record and then loading it, with no write in
\* between, returns a record equal to it in id, pid, bundle, status, created
\* (the same instant), annotations (the same entries) and ociVersion.
C30_SaveLoadRoundTrip ==
    output.done =>
      /\ output.state.id = input.id
      /\ output.state.pid = input.pid
      /\ output.state.bundle = input.bundle
      /\ output.state.status = input.status
      /\ output.state.created.wall = input.created.wall
      /\ output.state.annotations.pairs = input.annotations.pairs
      /\ output.state.ociVersion = input.ociVersion

\* C31: when start has spawned the init process and the state write that
\* follows fails, start kills that init process and returns an error: the
\* process is not left running and no record names it as running.
C31_FailedSaveTerminatesInit ==
    \A i \in Inv :
      inv[i].verb = "start" /\ inv[i].pc = "done" /\ inv[i].proc # 0 /\ ~inv[i].wrote =>
        /\ inv[i].result = "error"
        /\ inv[i].proc \notin alive
        /\ ~(file.kind = "rec" /\ file.pid = inv[i].proc)

C31_Witness ==
    \E i \in Inv :
      /\ inv[i].verb = "start" /\ inv[i].pc = "done" /\ inv[i].proc # 0 /\ ~inv[i].wrote
      /\ inv[i].err = "io" /\ inv[i].proc \notin alive

\* C32: the child makes its bring-up calls in the order private remount,
\* slave remount, bind mount of the rootfs, chdir to it, the eight calls of
\* pivot_root, the /proc mount with nosuid, noexec and nodev, the hostname if
\* one is configured, the lookup of the executable, exec; a call is made only
\* when all calls before it succeeded; the user program runs only after
\* pivot_root and the /proc mount succeeded; when exec returns the child
\* reports an error and exits nonzero.
C32_BringUpOrder ==
    LET Claimed ==
          <<Call("mount", "/", {"MS_PRIVATE", "MS_REC"}),
            Call("mount", "/", {"MS_SLAVE", "MS_REC"}),
            Call("mount", "rootfs", {"MS_BIND", "MS_REC"}),
            Call("chdir", "rootfs", {}),
            Call("open", "/", {"O_DIRECTORY", "O_RDONLY"}),
            Call("open", "rootfs", {"O_DIRECTORY", "O_RDONLY"}),
            Call("fchdir", "newroot", {}),
            Call("pivot_root", ".", {}),
            Call("fchdir", "oldroot", {}),
            Call("mount", ".", {"MS_SLAVE", "MS_REC"}),
            Call("unmount", ".", {"MNT_DETACH"}),
            Call("chdir", "/", {}),
            Call("mount", "/proc", {"MS_NOSUID", "MS_NOEXEC", "MS_NODEV"})>>
            \o (IF input.hostname THEN <<Call("sethostname", "", {})>> ELSE <<>>)
            \o <<Call("resolve", "args[0]", {}), Call("exec", "args[0]", {})>>
        IsClaimed(c) == \E k \in 1..Len(Claimed) : Claimed[k] = c
        made == SelectSeq(output.trace, IsClaimed)
        Succeeded(c) ==
          \E k \in 1..Len(output.trace) : output.trace[k] = c /\ output.failedAt # k
    IN  /\ Len(made) <= Len(Claimed) /\ made = SubSeq(Claimed, 1, Len(made))
        /\ output.failedAt \in {0, Len(output.trace)}
        /\ (output.image = "user" =>
              /\ Succeeded(Call("pivot_root", ".", {}))
              /\ Succeeded(Call("mount", "/proc", {"MS_NOSUID", "MS_NOEXEC", "MS_NODEV"}))
              /\ made = Claimed /\ output.failedAt = 0)
        /\ (output.failedAt # 0 /\ output.trace[Len(output.trace)].op = "exec" =>
              output.image = "init" /\ output.err /\ output.exit # 0)

C32_Witness ==
    \/ output.image = "user" /\ input.hostname
    \/ /\ output.failedAt # 0 /\ output.trace[Len(output.trace)].op = "exec"
       /\ output.exit # 0

\* C33: the clone flags used to spawn the init process are exactly the
\* flags of the namespace kinds listed in the configuration: a configured
\* kind is requested, a kind that is not configured is not.
C33_CloneFlagsFollowConfig ==
    LET FlagOf ==
          [mount |-> "CLONE_NEWNS", pid |-> "CLONE_NEWPID", uts |-> "CLONE_NEWUTS",
           ipc |-> "CLONE_NEWIPC", network |-> "CLONE_NEWNET", user |-> "CLONE_NEWUSER",
           cgroup |-> "CLONE_NEWCGROUP"]
    IN  output.done => output.flags = {FlagOf[kind] : kind \in input.namespaces}

\* C34: for every id that create or run accepts, the state directory is the
\* direct child of the root named by the id, never the root, its parent or
\* a path elsewhere, and the persisted id equals the directory's name.
C34_StateDirIsChildNamedId ==
    output.done /\ output.ok =>
      /\ output.dir.where = "child"
      /\ output.dir.name = input.id
      /\ output.stateId = output.dir.name

\* C35: a process takes the child role exactly when it was invoked with the
\* init verb; a user verb takes the supervisor role and never runs the
\* pivot and exec bring-up in its own process, whatever the id, bundle or
\* root given.
C35_ChildRoleOnlyForInitVerb ==
    output.done =>
      /\ (output.role = "child" <=> input.verb = "init")
      /\ (input.verb \in Verbs => ~output.bringUp)

\* C36: two start invocations running against the same created container
\* spawn at most one init process between them, at most one of them returns
\* success, and the pid in the state is that of the one init process.
C36_ConcurrentStartsSpawnOnce ==
    \A i, j \in Inv :
      /\ i # j
      /\ inv[i].verb = "start" /\ inv[j].verb = "start"
      /\ inv[i].proc # 0 /\ inv[j].proc # 0
      => procGen[inv[i].proc] # procGen[inv[j].proc]

\* C37: a reaper forked for one incarnation of a container never changes
\* the status of a record written after the container directory was removed
\* and the same id created again.
C37_ReaperKeepsToItsIncarnation ==
    [][\A p \in Pids :
         /\ reaper[p].pc \in {"open", "write"}
         /\ reaper'[p] # reaper[p]
         /\ epoch > reaper[p].epoch
         /\ last.kind = "rec"
         => last'.status = last.status]_vars

\* C38: a persisted status of stopped implies that the container's own init
\* process was spawned and has exited: the file never says stopped while an
\* init process spawned for that record is alive.
C38_StoppedMeansInitExited ==
    file.kind = "rec" /\ file.status = "stopped" =>
      /\ \E p \in Pids : p <= spawned /\ procGen[p] = file.created
      /\ \A p \in Pids : p <= spawned /\ procGen[p] = file.created => p \notin alive

\* C39: in the subreaper variant, however RegisterContainer interleaves
\* with the SIGCHLD handling: the record of a registered pid is set to
\* stopped at most once, and once when the pid has been reaped and removed
\* from the map; reaping a pid that is not registered changes no record;
\* and no registered pid stays in the map after its process has been reaped.
C39_SubreaperSettlesRegisteredPids ==
    \A c \in Children :
      LET reaped == c \notin output.running /\ c \notin output.zombie /\ output.pid # c
      IN  /\ output.stops[c] <= 1
          /\ (c \notin input.registers => output.status[c] = "running")
          /\ (reaped /\ output.stops[c] = 1 => c \notin output.pidMap)
          /\ (reaped /\ c \in output.pidMap => output.status[c] = "stopped")

====
